---------------------------- MODULE Spec2Model ----------------------------
(***************************************************************************)
(* A model of the clients-md-generator: cmd/generate/main.go loads the     *)
(* YAML config, opens the output sinks and calls CreateMarkdownDocument    *)
(* (markdown.go), which writes the Markdown document to the writer one     *)
(* Fprint call at a time.                                                  *)
(*                                                                         *)
(* Text is modelled as a sequence of string tokens (a rope): the Go string *)
(* "" is the empty sequence, concatenation is \o.  Names and target        *)
(* identifiers are spelled one character per token, so that ToLower,       *)
(* TrimSpace and HasPrefix are computed on them as the code computes them. *)
(* A *bool is a sequence of length 0 (nil) or 1 (the value pointed to).    *)
(* The apostrophe in a token stands for Go's backquote character, which a  *)
(* TLA+ string literal cannot hold.                                        *)
(*                                                                         *)
(* Spec is the generator's main.  The parts of the repository that main    *)
(* does not call have specifications of their own, over variables of their *)
(* own: SpecNodes applies the operations of the document nodes of utils.go *)
(* (NewText, TableBuilder, Table, Render), SpecDownloads renders a decoded *)
(* Download of each registered kind, and SpecSorter is the main of the     *)
(* README bullet sorter.                                                   *)
(***************************************************************************)
EXTENDS Integers, Sequences, FiniteSets, TLC

(* ------------------------------ bounds -------------------------------- *)

\* Largest number of clients in a document-family config.
MaxClients == 2

\* Largest number of entries in the types list of a document-family config.
MaxTypes == 2

\* CreateMarkdownDocument is run at most this many times on a loaded config.
MaxRuns == 2

(* ------------------------- strings (Go: strings) ---------------------- *)

UpperLetters == <<"A","B","C","D","E","F","G","H","I","J","K","L","M",
                  "N","O","P","Q","R","S","T","U","V","W","X","Y","Z">>

LowerLetters == <<"a","b","c","d","e","f","g","h","i","j","k","l","m",
                  "n","o","p","q","r","s","t","u","v","w","x","y","z">>

WhiteSpace == {" ", "\t", "\n", "\r"}

LowerChar(c) ==
    IF \E i \in 1..Len(UpperLetters) : UpperLetters[i] = c
    THEN LowerLetters[CHOOSE i \in 1..Len(UpperLetters) : UpperLetters[i] = c]
    ELSE c

\* strings.ToLower
ToLower(s) == [i \in 1..Len(s) |-> LowerChar(s[i])]

\* strings.TrimSpace
TrimSpace(s) ==
    LET keep == {i \in 1..Len(s) : s[i] \notin WhiteSpace}
    IN  IF keep = {} THEN <<>>
        ELSE LET lo == CHOOSE i \in keep : \A j \in keep : i <= j
                 hi == CHOOSE i \in keep : \A j \in keep : j <= i
             IN  SubSeq(s, lo, hi)

\* strings.HasPrefix
HasPrefix(s, prefix) ==
    /\ Len(prefix) <= Len(s)
    /\ SubSeq(s, 1, Len(prefix)) = prefix

\* strings.ReplaceAll(s, old, "") for a one-token old
RemoveAll(s, old) == SelectSeq(s, LAMBDA t : t # old)

\* A Go string that the model keeps as one token: "" is the empty rope.
T(s) == IF s = "" THEN <<>> ELSE <<s>>

RECURSIVE Flatten(_)
\* The concatenation of a sequence of ropes.
Flatten(ss) == IF ss = <<>> THEN <<>> ELSE Head(ss) \o Flatten(Tail(ss))

(* ------------------------- utils.go: pointers ------------------------- *)

Nil == <<>>

Ref(what) == <<what>>

DerefDef(what, defaultValue) == IF what # Nil THEN what[1] ELSE defaultValue

Deref(what) == IF what # Nil THEN what[1] ELSE FALSE

Select(expr, whenTrue, whenFalse) == IF expr THEN whenTrue ELSE whenFalse

(* ------------------------- config.go constants ------------------------ *)

JellyfinOrgURL == <<"https://github.com/", "jellyfin/">>

GoodTrue == "GoodTrue"

BadTrue == "BadTrue"

GoodFalse == "GoodFalse"

BadFalse == "BadFalse"

OfficialTypeKey == "Official"

BetaTypeKey == "Beta"

(* ------------------------- models.go: ClientType ---------------------- *)

\* ClientTypes.FindType: the index of the first type with the key, 0 if none.
FindType(types, key) ==
    IF \E i \in 1..Len(types) : types[i].Key = key
    THEN CHOOSE i \in 1..Len(types) :
            /\ types[i].Key = key
            /\ \A j \in 1..(i - 1) : types[j].Key # key
    ELSE 0

\* ClientType.String
TypeString(t) == IF t.Display # "" THEN t.Display ELSE t.Key

\* ClientType.StringWithBadge
StringWithBadge(t) ==
    IF t.Badge = "" THEN T(TypeString(t))
    ELSE <<"' ", t.Badge, " ' ">> \o T(TypeString(t))

(* ------------------------- markdown.go: one row ----------------------- *)

\* The value a step returns when it does not panic.
NoPanic == ""

\* HosterIcon.Markdown: [panic, md]
IconMarkdown(i, url) ==
    IF (i.Dark # "") # (i.Light # "")
    THEN [panic |-> "use 'single' if only a single icon URL is available",
          md |-> <<>>]
    ELSE IF i.Dark # ""
    THEN [panic |-> NoPanic,
          md |-> <<"<a href=\"">> \o T(url) \o <<"\"><picture><source dark srcset=\"">>
                 \o T(i.Dark) \o <<"\"><source light srcset=\"">> \o T(i.Light)
                 \o <<"\"><img src=\"">> \o T(i.Dark) \o <<"\"></picture></a>">>]
    ELSE IF i.Text # ""
    THEN [panic |-> NoPanic, md |-> <<"[">> \o T(i.Text) \o <<"](">> \o T(url) \o <<")">>]
    ELSE [panic |-> NoPanic,
          md |-> <<"[![img](">> \o T(i.Single) \o <<")](">> \o T(url) \o <<")">>]

\* The body of processClientDownloads' loop for one hoster: [panic, md]
HosterMarkdown(hoster, icons) ==
    IF hoster.Icon \in DOMAIN icons /\ hoster.Icon # ""
    THEN IconMarkdown(icons[hoster.Icon], hoster.URL)
    ELSE IF hoster.IconURL # ""
    THEN IconMarkdown([Light |-> "", Dark |-> "", Single |-> hoster.IconURL, Text |-> ""],
                      hoster.URL)
    ELSE IF hoster.Text # <<>>
    THEN [panic |-> NoPanic,
          md |-> <<"[">> \o hoster.Text \o <<"](">> \o T(hoster.URL) \o <<")">>]
    ELSE [panic |-> "invalid download. specify either icon, icon-url, or text",
          md |-> <<>>]

RECURSIVE DownloadsLoop(_, _, _)
\* processClientDownloads' loop from the hosters still to do, sb being the builder.
DownloadsLoop(hosters, icons, sb) ==
    IF hosters = <<>> THEN [panic |-> NoPanic, md |-> sb]
    ELSE LET sep == IF Len(sb) > 0 THEN sb \o <<" ">> ELSE sb
             one == HosterMarkdown(Head(hosters), icons)
         IN  IF one.panic # NoPanic THEN [panic |-> one.panic, md |-> <<>>]
             ELSE DownloadsLoop(Tail(hosters), icons, sep \o one.md)

\* processClientDownloads: [panic, md]
processClientDownloads(client, config) ==
    LET r == DownloadsLoop(client.Downloads, config.Icons, <<>>)
    IN  [panic |-> r.panic, md |-> RemoveAll(r.md, "\n")]

\* addTypeBadge that skips a key it does not find.
addTypeBadgeSkip(badges, key, config) ==
    LET i == FindType(config.Types, key)
    IN  IF i # 0 /\ config.Types[i].Badge # ""
        THEN [panic |-> NoPanic, badges |-> Append(badges, config.Types[i].Badge)]
        ELSE [panic |-> NoPanic, badges |-> badges]

\* addTypeBadge: [panic, badges]
addTypeBadge(badges, key, config) ==
    LET i == FindType(config.Types, key)
    IN  IF i = 0 THEN [panic |-> "cannot find type with key", badges |-> badges]
        ELSE IF config.Types[i].Badge # ""
        THEN [panic |-> NoPanic, badges |-> Append(badges, config.Types[i].Badge)]
        ELSE [panic |-> NoPanic, badges |-> badges]

\* The keys PrintClientTableRow looks up, in the order it looks them up.
BadgeKeys(client) ==
    (IF Deref(client.Official) THEN <<OfficialTypeKey>> ELSE <<>>)
    \o (IF Deref(client.Beta) THEN <<BetaTypeKey>> ELSE <<>>)
    \o client.Types

RECURSIVE BadgesLoop(_, _, _)
\* The addTypeBadge calls of PrintClientTableRow, stopping at the first panic.
BadgesLoop(keys, badges, config) ==
    IF keys = <<>> THEN [panic |-> NoPanic, badges |-> badges]
    ELSE LET one == addTypeBadge(badges, Head(keys), config)
         IN  IF one.panic # NoPanic THEN one
             ELSE BadgesLoop(Tail(keys), one.badges, config)

\* DefaultedClient with the Official default left out.
DefaultedClientNoOfficial(client) ==
    IF client.Price.Free = Nil /\ client.OpenSourceURL # <<>>
    THEN [client EXCEPT !.Price.Free = Ref(TRUE)]
    ELSE client

\* DefaultedClient with Free set for every open-source client, whatever the flag.
DefaultedClientFreeAlways(client) ==
    LET c1 == IF client.Official = Nil /\ HasPrefix(client.OpenSourceURL, JellyfinOrgURL)
              THEN [client EXCEPT !.Official = Ref(TRUE)]
              ELSE client
    IN  IF c1.OpenSourceURL # <<>>
        THEN [c1 EXCEPT !.Price.Free = Ref(TRUE)]
        ELSE c1

\* PrintClientTableRow's defaulting of the client it is given (a pointer).
DefaultedClient(client) ==
    LET c1 == IF client.Official = Nil /\ HasPrefix(client.OpenSourceURL, JellyfinOrgURL)
              THEN [client EXCEPT !.Official = Ref(TRUE)]
              ELSE client
    IN  IF c1.Price.Free = Nil /\ c1.OpenSourceURL # <<>>
        THEN [c1 EXCEPT !.Price.Free = Ref(TRUE)]
        ELSE c1

\* name += fmt.Sprintf(" ' %s '", b) for each badge
NameWithBadges(name, badges) ==
    name \o Flatten([i \in 1..Len(badges) |-> <<" ' ", badges[i], " '">>])

\* The Fprintf of PrintClientTableRow
RowText(name, websiteURL, oss, free, paid, downloadsMarkdown) ==
    <<"| ", "[">> \o name \o <<"](">> \o websiteURL \o <<")", " | ">> \o <<oss>>
    \o <<" | ">> \o <<free>> \o <<" | ">> \o <<paid>> \o <<" | ">> \o downloadsMarkdown
    \o <<" |">>

\* PrintClientTableRow that reads the flags of its row before it defaults them.
PrintClientTableRowStale(client0, config) ==
    LET client == DefaultedClient(client0)
        oss == Select(client.OpenSourceURL # <<>>, GoodTrue, BadFalse)
        free == Select(DerefDef(client0.Price.Free, FALSE), GoodTrue, BadFalse)
        paid == Select(DerefDef(client.Price.Paid, FALSE), BadTrue, GoodFalse)
        websiteURL == Select(client.Website # <<>>, client.Website, client.OpenSourceURL)
        downloads == processClientDownloads(client, config)
        badges == BadgesLoop(BadgeKeys(client0), <<>>, config)
    IN  IF downloads.panic # NoPanic
        THEN [panic |-> downloads.panic, client |-> client, chunks |-> <<>>]
        ELSE IF badges.panic # NoPanic
        THEN [panic |-> badges.panic, client |-> client, chunks |-> <<>>]
        ELSE [panic |-> NoPanic, client |-> client,
              chunks |-> << RowText(NameWithBadges(client.Name, badges.badges),
                                    websiteURL, oss, free, paid, downloads.md),
                            <<"\n">> >>]

\* PrintClientTableRow: [panic, client, chunks], client being the client as the
\* call leaves it and chunks what it has written.
PrintClientTableRow(client0, config) ==
    LET client == DefaultedClient(client0)
        oss == Select(client.OpenSourceURL # <<>>, GoodTrue, BadFalse)
        free == Select(DerefDef(client.Price.Free, FALSE), GoodTrue, BadFalse)
        paid == Select(DerefDef(client.Price.Paid, FALSE), BadTrue, GoodFalse)
        websiteURL == Select(client.Website # <<>>, client.Website, client.OpenSourceURL)
        downloads == processClientDownloads(client, config)
        badges == BadgesLoop(BadgeKeys(client), <<>>, config)
    IN  IF downloads.panic # NoPanic
        THEN [panic |-> downloads.panic, client |-> client, chunks |-> <<>>]
        ELSE IF badges.panic # NoPanic
        THEN [panic |-> badges.panic, client |-> client, chunks |-> <<>>]
        ELSE [panic |-> NoPanic, client |-> client,
              chunks |-> << RowText(NameWithBadges(client.Name, badges.badges),
                                    websiteURL, oss, free, paid, downloads.md),
                            <<"\n">> >>]

\* PrintTableHeader: the two lines it writes.
PrintTableHeader ==
    << <<"| Name | OSS | Free | Paid | Downloads |", "\n">>,
       <<"| ---- | --- | ---- | ---- | --------- |", "\n">> >>

(* ------------------------- config.go: the target map ------------------ *)

\* identifierClientMap[k] of a map kept as a function on its keys; a missing
\* key reads as the nil slice.
Bucket(m, k) == IF k \in DOMAIN m THEN m[k] ELSE <<>>

\* The identifiers of a client, normalised as createIdentifierClientMap does.
NormTargets(client) ==
    [j \in 1..Len(client.Targets) |-> TrimSpace(ToLower(client.Targets[j]))]

RECURSIVE AppendTargets(_, _, _)
\* The inner loop of createIdentifierClientMap for client number i.
AppendTargets(m, i, keys) ==
    IF keys = <<>> THEN m
    ELSE LET k == Head(keys)
             m1 == [x \in DOMAIN m \cup {k} |-> IF x = k THEN Append(Bucket(m, k), i)
                                                 ELSE m[x]]
         IN  AppendTargets(m1, i, Tail(keys))

RECURSIVE MapLoop(_, _, _)
\* The outer loop of createIdentifierClientMap from client number i on.
MapLoop(m, clients, i) ==
    IF i > Len(clients) THEN m
    ELSE MapLoop(AppendTargets(m, i, NormTargets(clients[i])), clients, i + 1)

\* createIdentifierClientMap: each bucket lists clients by their index in
\* config.Clients (the code's buckets hold pointers to those clients).
createIdentifierClientMap(clients) == MapLoop(<<>>, clients, 1)

(* ------------------------- the download registry ---------------------- *)

\* The keys of downloadFactories.
DownloadKinds ==
    {"icon", "text", "github", "flathub", "docker", "shield", "gitlab", "demo",
     "app-store", "google-play"}

\* The value of a raw item's "type" key: absent, a string, or another YAML value.
TypeAbsent == [present |-> FALSE, isString |-> FALSE, str |-> ""]

TypeStr(s) == [present |-> TRUE, isString |-> TRUE, str |-> s]

TypeNotString == [present |-> TRUE, isString |-> FALSE, str |-> ""]

NoError == ""

ErrInvalidType == "missing or invalid 'type' in download item"

ErrUnknownType == "unknown download type"

\* ItemError with an item that has no "type" key taken for a text download.
ItemErrorDefaultText(raw) ==
    LET rawType == IF raw.type.present /\ raw.type.isString THEN raw.type.str ELSE "text"
    IN  IF raw.type.present /\ ~raw.type.isString THEN ErrInvalidType
        ELSE IF rawType \notin DownloadKinds THEN ErrUnknownType
        ELSE NoError

\* The loop body of Downloads.UnmarshalYAML for one raw item: the error it returns.
ItemError(raw) ==
    LET rawType == IF raw.type.present /\ raw.type.isString THEN raw.type.str ELSE ""
    IN  IF raw.type.present /\ ~raw.type.isString THEN ErrInvalidType
        ELSE IF rawType \notin DownloadKinds THEN ErrUnknownType
        ELSE NoError

RECURSIVE DownloadsUnmarshalYAML(_)
\* Downloads.UnmarshalYAML: the first item's error, NoError when every item decodes.
DownloadsUnmarshalYAML(rawItems) ==
    IF rawItems = <<>> THEN NoError
    ELSE IF ItemError(Head(rawItems)) # NoError THEN ItemError(Head(rawItems))
    ELSE DownloadsUnmarshalYAML(Tail(rawItems))

\* The Hoster a raw download item binds to (models.go).
Hoster(raw) ==
    [Icon |-> raw.Icon, IconURL |-> raw.IconURL, Text |-> raw.Text, URL |-> raw.URL]

RECURSIVE DecodeError(_)
\* yaml.Unmarshal of the clients, in document order: the first error.
DecodeError(clients) ==
    IF clients = <<>> THEN NoError
    ELSE IF DownloadsUnmarshalYAML(Head(clients).Downloads) # NoError
    THEN DownloadsUnmarshalYAML(Head(clients).Downloads)
    ELSE DecodeError(Tail(clients))

\* The *ClientsConfig yaml.Unmarshal binds a well-formed document to.
Decoded(doc) ==
    [Clients |-> [i \in 1..Len(doc.Clients) |->
                    [doc.Clients[i] EXCEPT !.Downloads =
                        [j \in 1..Len(doc.Clients[i].Downloads) |->
                            Hoster(doc.Clients[i].Downloads[j])]]],
     Targets |-> doc.Targets,
     Types |-> doc.Types,
     Icons |-> doc.Icons]

\* The nil *ClientsConfig main holds before LoadConfig returns.
NilConfig == [Clients |-> <<>>, Targets |-> <<>>, Types |-> <<>>, Icons |-> <<>>]


(* ------------------------- the inputs of a run ------------------------ *)

Apple == <<"a", "p", "p", "l", "e">>

Zeta == <<"Z", "e", "t", "a">>

IOS == <<"i", "o", "s">>

IOSMixed == <<" ", "i", "O", "S", " ">>

Web == <<"w", "e", "b">>

Linux == <<"L", "i", "n", "u", "x">>

SeqsUpTo(pool, n) == UNION {[1..k -> pool] : k \in 0..n}

Tri == {Nil, Ref(TRUE), Ref(FALSE)}

\* config.Icons of every input.
IconsConfig ==
    [n \in {"github", "store", "half", "fdroid"} |->
        CASE n = "github" -> [Light |-> "", Dark |-> "", Single |-> "gh.png", Text |-> ""]
          [] n = "store"  -> [Light |-> "l.png", Dark |-> "d.png", Single |-> "", Text |-> ""]
          [] n = "half"   -> [Light |-> "", Dark |-> "d.png", Single |-> "", Text |-> ""]
          [] n = "fdroid" -> [Light |-> "", Dark |-> "", Single |-> "", Text |-> "F-Droid"]]

RawDownload(type, icon, iconURL, text) ==
    [type |-> type, Icon |-> icon, IconURL |-> iconURL, Text |-> text,
     URL |-> "https://get.example/"]

DText == RawDownload(TypeStr("text"), "", "", <<"Web">>)

\* Download items that bind to a Hoster each branch of processClientDownloads meets.
RenderPool ==
    { DText,
      RawDownload(TypeStr("text"), "", "", <<"Get", "\n", "it">>),
      RawDownload(TypeStr("icon"), "github", "", <<>>),
      RawDownload(TypeStr("icon"), "store", "", <<>>),
      RawDownload(TypeStr("icon"), "half", "", <<>>),
      RawDownload(TypeStr("icon"), "fdroid", "", <<>>),
      RawDownload(TypeStr("icon"), "nosuchicon", "x.png", <<>>),
      RawDownload(TypeStr("text"), "", "", <<>>) }

\* Download items by their "type" key alone.
TypePool ==
    { DText,
      RawDownload(TypeStr("github"), "", "", <<"Releases">>),
      RawDownload(TypeStr("ftp"), "", "", <<"Mirror">>),
      RawDownload(TypeAbsent, "", "", <<"Mirror">>),
      RawDownload(TypeNotString, "", "", <<"Mirror">>) }

ClientType(key, badge, display, section) ==
    [Key |-> key, Badge |-> badge, Display |-> display, Section |-> section]

TOfficial == ClientType(OfficialTypeKey, "official-glyph", "", FALSE)

TBeta == ClientType(BetaTypeKey, "beta-glyph", "", FALSE)

TMusic == ClientType("Music", "music-glyph", "Music Players", TRUE)

TReader == ClientType("Reader", "", "", TRUE)

TypesConfig == <<TOfficial, TBeta, TMusic, TReader>>

\* The types lists of the badge family: the full list, the Official type with no
\* glyph, and a list that holds neither Official nor Beta.
BadgeTypeLists ==
    { TypesConfig,
      <<ClientType(OfficialTypeKey, "", "", FALSE), TBeta, TMusic>>,
      <<TMusic>> }

\* The pool the types lists of the types family are drawn from.
TypeListPool ==
    { TOfficial, TMusic, TReader,
      ClientType("Music", "", "", FALSE),
      ClientType("Reader", "reader-glyph", "Readers", TRUE) }

Target(name, mapped) == [Name |-> name, Mapped |-> mapped]

Mobile == [Key |-> "mobile", Display |-> "Mobile", Has |-> <<Target(IOSMixed, "iOS")>>]

Desktop ==
    [Key |-> "desktop", Display |-> "Desktop",
     Has |-> <<Target(Web, "Browser"), Target(Linux, "Linux")>>]

TargetsConfig == <<Mobile, Desktop>>

BaseClient ==
    [Name |-> Zeta, Targets |-> <<IOS>>, Official |-> Nil, Beta |-> Nil,
     Website |-> <<"https://example.org/">>, OpenSourceURL |-> <<>>,
     Price |-> [Free |-> Nil, Paid |-> Nil], Downloads |-> <<DText>>, Types |-> <<>>]

\* Open-source URLs: none, two under the Jellyfin organisation prefix or just
\* short of it, and one elsewhere.
OSSURLs ==
    { <<>>,
      <<"https://github.com/", "jellyfin/", "jellyfin-web">>,
      <<"https://github.com/", "jellyfin">>,
      <<"https://gitlab.com/", "someone/", "app">> }

Document(clients, targets, types) ==
    [Clients |-> clients, Targets |-> targets, Types |-> types, Icons |-> IconsConfig]

\* One client; the flags and tags that decide the badges of its row vary.
BadgeDocs ==
    { Document(<<[BaseClient EXCEPT !.Official = o, !.Beta = b, !.OpenSourceURL = u,
                                    !.Types = t]>>, <<Mobile>>, tl) :
        o \in Tri, b \in Tri, u \in OSSURLs,
        t \in {<<>>, <<"Music">>, <<"Ghost">>}, tl \in BadgeTypeLists }

\* One client; the fields that decide the link and the OSS, Free and Paid cells vary.
CellDocs ==
    { Document(<<[BaseClient EXCEPT !.Website = w, !.OpenSourceURL = u,
                                    !.Price = [Free |-> f, Paid |-> p]]>>,
               <<Mobile>>, TypesConfig) :
        w \in {<<>>, <<"https://example.org/">>}, u \in OSSURLs, f \in Tri, p \in Tri }

\* One client; its download list varies.
DownloadDocs ==
    { Document(<<[BaseClient EXCEPT !.Downloads = d]>>, <<Mobile>>, TypesConfig) :
        d \in SeqsUpTo(RenderPool, 2) }

\* The clients of the client family: name, targets and type tags vary, and one
\* client has a download that cannot be rendered.
ClientPool ==
    { [BaseClient EXCEPT !.Name = n, !.Targets = tg, !.Types = t] :
        n \in {Apple, Zeta},
        tg \in {<<IOS>>, <<IOSMixed, Web>>, <<IOS, IOSMixed>>},
        t \in {<<>>, <<"Music">>, <<"Ghost">>} }
    \cup { [BaseClient EXCEPT !.Name = Apple,
                              !.Downloads = <<RawDownload(TypeStr("text"), "", "", <<>>)>>] }

\* Up to MaxClients clients; targets and types are fixed.
ClientDocs ==
    { Document(cs, TargetsConfig, TypesConfig) : cs \in SeqsUpTo(ClientPool, MaxClients) }

\* Up to MaxTypes types; the clients carry no tag, or the tags Music and Reader.
TypeDocs ==
    { Document(cs, <<Mobile>>, tl) :
        cs \in { <<BaseClient, [BaseClient EXCEPT !.Name = Apple]>>,
                 <<[BaseClient EXCEPT !.Types = <<"Music">>],
                   [BaseClient EXCEPT !.Name = Apple, !.Types = <<"Reader", "Music">>]>> },
        tl \in SeqsUpTo(TypeListPool, MaxTypes) }

\* Up to two clients; the "type" keys of their download items vary.
LoadDocs ==
    { Document(cs, <<Mobile>>, TypesConfig) :
        cs \in SeqsUpTo({ [BaseClient EXCEPT !.Downloads = d] : d \in SeqsUpTo(TypePool, 2) }, 2) }

(* ------------------------- the state of a run ------------------------- *)

VARIABLES
    input,              \* the YAML document of the input file
    outputFile,         \* -out-file is not empty
    outputStdout,       \* -out-stdout
    pc,                 \* where main is
    config,             \* the *ClientsConfig of main
    loadErr,            \* the error LoadConfig returned
    panicMsg,           \* the panic that ended the run, NoPanic if none
    fileTruncated,      \* os.OpenFile with O_TRUNC has been called
    out,                \* what has been written to the writer, one Fprint a chunk
    targetClientsMap,   \* CreateMarkdownDocument's local of that name
    loop,               \* the loop variables of CreateMarkdownDocument
    run,                \* which run of CreateMarkdownDocument this is
    prevOut,            \* what the run before this one wrote
    download,           \* a Download value, as Downloads.UnmarshalYAML decoded it
    rendered,           \* what Render of the download returned, or its panic
    textNode,           \* a Text node (utils.go)
    builder,            \* a *TableBuilder
    table,              \* the Table that Build returned
    markdown,           \* the string the last Render of a node returned
    lines,              \* the bullet sorter: the lines read from the input file
    output,             \* the bullet sorter: the output lines, by input line index
    lineIndex,          \* the bullet sorter: i, the index of the line to read next
    blocks,             \* the bullet sorter: the bullet blocks of the list being read
    sortPc              \* the bullet sorter: where its main is

\* The variables of the download renderers, of the document nodes and of the
\* bullet sorter: the generator's main touches none of them.
downloadVars == <<download, rendered>>

nodeVars == <<textNode, builder, table, markdown>>

sorterVars == <<lines, output, lineIndex, blocks, sortPc>>

libVars == <<downloadVars, nodeVars, sorterVars>>

mainVars ==
    <<input, outputFile, outputStdout, pc, config, loadErr, panicMsg, fileTruncated,
      out, targetClientsMap, loop, run, prevOut>>

vars == <<mainVars, libVars>>

\* Nothing: the value of a variable that holds no object yet.
None == <<>>

DownloadIdle == download = None /\ rendered = None

NodeIdle == textNode = None /\ builder = None /\ table = None /\ markdown = None

SorterIdle == lines = <<>> /\ output = <<>> /\ lineIndex = 0 /\ blocks = <<>> /\ sortPc = "idle"

NoLoop ==
    [ti |-> 0, hi |-> 0, ri |-> 0, ty |-> 0, ci |-> 0,
     printHeader |-> FALSE, printTypeHeader |-> FALSE]

InitWith(docs, files, stdouts) ==
    /\ input \in docs
    /\ outputFile \in files
    /\ outputStdout \in stdouts
    /\ pc = "load"
    /\ config = NilConfig
    /\ loadErr = NoError
    /\ panicMsg = NoPanic
    /\ fileTruncated = FALSE
    /\ out = <<>>
    /\ targetClientsMap = <<>>
    /\ loop = NoLoop
    /\ run = 0
    /\ prevOut = <<>>
    /\ DownloadIdle
    /\ NodeIdle
    /\ SorterIdle

Init ==
    \/ InitWith(BadgeDocs \cup CellDocs \cup DownloadDocs \cup ClientDocs \cup TypeDocs,
                {TRUE}, {TRUE})
    \/ InitWith(LoadDocs, BOOLEAN, BOOLEAN)

(* ------------------------- cmd/generate/main.go ----------------------- *)

\* config, err := generator.LoadConfig(inputFile); if err != nil { panic(err) }
LoadConfig ==
    /\ pc = "load"
    /\ LET err == DecodeError(input.Clients)
       IN  IF err # NoError
           THEN /\ loadErr' = err
                /\ panicMsg' = err
                /\ pc' = "panic"
                /\ UNCHANGED config
           ELSE /\ config' = Decoded(input)
                /\ pc' = "open"
                /\ UNCHANGED <<loadErr, panicMsg>>
    /\ UNCHANGED <<input, outputFile, outputStdout, fileTruncated, out,
                   targetClientsMap, loop, run, prevOut>>
    /\ UNCHANGED libVars

\* The writers of main: the output file, opened with O_TRUNC, and os.Stdout.
OpenOutput ==
    /\ pc = "open"
    /\ fileTruncated' = outputFile
    /\ pc' = "doc"
    /\ run' = 1
    /\ UNCHANGED <<input, outputFile, outputStdout, config, loadErr, panicMsg, out,
                   targetClientsMap, loop, prevOut>>
    /\ UNCHANGED libVars


(* ------------------------- markdown.go: CreateMarkdownDocument -------- *)

Divider == <<"\n", "---", "\n", "\n">>

\* A PrintClientTableRow call on client number i, after the caller has written
\* `before`: the row is written, or the call panics and the run ends.
CallRow(i, before, nextPc, nextLoop) ==
    LET r == PrintClientTableRow(config.Clients[i], config)
    IN  /\ config' = [config EXCEPT !.Clients[i] = r.client]
        /\ IF r.panic # NoPanic
           THEN /\ out' = out \o before
                /\ panicMsg' = r.panic
                /\ pc' = "panic"
                /\ UNCHANGED loop
           ELSE /\ out' = out \o before \o r.chunks
                /\ pc' = nextPc
                /\ loop' = nextLoop
                /\ UNCHANGED panicMsg

\* targetClientsMap := createIdentifierClientMap(...); Fprint "# By Environment\n"
BeginDocument ==
    /\ pc = "doc"
    /\ targetClientsMap' = createIdentifierClientMap(config.Clients)
    /\ out' = Append(out, <<"# ", "By Environment", "\n">>)
    /\ loop' = [NoLoop EXCEPT !.ti = 1]
    /\ pc' = "target"
    /\ UNCHANGED <<input, outputFile, outputStdout, config, loadErr, panicMsg,
                   fileTruncated, run, prevOut>>
    /\ UNCHANGED libVars

\* for _, target := range config.Targets: the level-2 heading
TargetStep ==
    /\ pc = "target"
    /\ loop.ti <= Len(config.Targets)
    /\ out' = Append(out, <<"## ">> \o T(config.Targets[loop.ti].Display) \o <<"\n", "\n">>)
    /\ loop' = [loop EXCEPT !.hi = 1]
    /\ pc' = "has"
    /\ UNCHANGED <<input, outputFile, outputStdout, config, loadErr, panicMsg,
                   fileTruncated, targetClientsMap, run, prevOut>>
    /\ UNCHANGED libVars

\* for _, meta := range target.Has: the level-3 heading and PrintTableHeader
HasStep ==
    /\ pc = "has"
    /\ loop.hi <= Len(config.Targets[loop.ti].Has)
    /\ LET target == config.Targets[loop.ti]
           meta == target.Has[loop.hi]
           hasMultipleTargets == Len(target.Has) > 1
       IN  out' = out
                  \o (IF hasMultipleTargets
                      THEN << <<"### ">> \o T(meta.Mapped) \o <<"\n", "\n">> >>
                      ELSE <<>>)
                  \o PrintTableHeader
    /\ loop' = [loop EXCEPT !.ri = 1]
    /\ pc' = "rows"
    /\ UNCHANGED <<input, outputFile, outputStdout, config, loadErr, panicMsg,
                   fileTruncated, targetClientsMap, run, prevOut>>
    /\ UNCHANGED libVars

\* The clients PrintClientTable ranges over for the target the loop is at.
CurrentBucket ==
    Bucket(targetClientsMap,
           ToLower(TrimSpace(config.Targets[loop.ti].Has[loop.hi].Name)))

\* PrintClientTable: one PrintClientTableRow call
RowStep ==
    /\ pc = "rows"
    /\ loop.ri <= Len(CurrentBucket)
    /\ CallRow(CurrentBucket[loop.ri], <<>>, "rows", [loop EXCEPT !.ri = loop.ri + 1])
    /\ UNCHANGED <<input, outputFile, outputStdout, loadErr, fileTruncated,
                   targetClientsMap, run, prevOut>>
    /\ UNCHANGED libVars

\* PrintClientTable returns; Fprintln(writer)
TableDone ==
    /\ pc = "rows"
    /\ loop.ri > Len(CurrentBucket)
    /\ out' = Append(out, <<"\n">>)
    /\ loop' = [loop EXCEPT !.hi = loop.hi + 1]
    /\ pc' = "has"
    /\ UNCHANGED <<input, outputFile, outputStdout, config, loadErr, panicMsg,
                   fileTruncated, targetClientsMap, run, prevOut>>
    /\ UNCHANGED libVars

\* The range over target.Has ends.
HasDone ==
    /\ pc = "has"
    /\ loop.hi > Len(config.Targets[loop.ti].Has)
    /\ loop' = [loop EXCEPT !.ti = loop.ti + 1]
    /\ pc' = "target"
    /\ UNCHANGED <<input, outputFile, outputStdout, config, loadErr, panicMsg,
                   fileTruncated, out, targetClientsMap, run, prevOut>>
    /\ UNCHANGED libVars

\* The range over config.Targets ends; if len(config.Types) > 0 { printHeader := true
TargetsDone ==
    /\ pc = "target"
    /\ loop.ti > Len(config.Targets)
    /\ IF Len(config.Types) > 0
       THEN /\ loop' = [loop EXCEPT !.ty = 1, !.printHeader = TRUE]
            /\ pc' = "type"
       ELSE /\ pc' = "done"
            /\ UNCHANGED loop
    /\ UNCHANGED <<input, outputFile, outputStdout, config, loadErr, panicMsg,
                   fileTruncated, out, targetClientsMap, run, prevOut>>
    /\ UNCHANGED libVars

\* for _, customType := range config.Types: skip a type that is no section, else
\* write the "By Type" header once
TypeStep ==
    /\ pc = "type"
    /\ loop.ty <= Len(config.Types)
    /\ IF ~config.Types[loop.ty].Section
       THEN /\ loop' = [loop EXCEPT !.ty = loop.ty + 1]
            /\ UNCHANGED <<out, pc>>
       ELSE /\ out' = out \o (IF loop.printHeader
                              THEN <<Divider, <<"# ", "By Type", "\n">> >>
                              ELSE <<>>)
            /\ loop' = [loop EXCEPT !.printHeader = FALSE, !.printTypeHeader = TRUE,
                                    !.ci = 1]
            /\ pc' = "member"
    /\ UNCHANGED <<input, outputFile, outputStdout, config, loadErr, panicMsg,
                   fileTruncated, targetClientsMap, run, prevOut>>
    /\ UNCHANGED libVars

\* for _, client := range config.Clients: skip a client that does not carry the
\* type, else write the type's heading once and the client's row
MemberStep ==
    /\ pc = "member"
    /\ loop.ci <= Len(config.Clients)
    /\ LET customType == config.Types[loop.ty]
           client == config.Clients[loop.ci]
           belongs == \E j \in 1..Len(client.Types) : client.Types[j] = customType.Key
       IN  IF ~belongs
           THEN /\ loop' = [loop EXCEPT !.ci = loop.ci + 1]
                /\ UNCHANGED <<config, out, pc, panicMsg>>
           ELSE CallRow(loop.ci,
                        IF loop.printTypeHeader
                        THEN << <<"\n", "## ">> \o StringWithBadge(customType)
                                \o <<"\n", "\n">> >> \o PrintTableHeader
                        ELSE <<>>,
                        "member",
                        [loop EXCEPT !.printTypeHeader = FALSE, !.ci = loop.ci + 1])
    /\ UNCHANGED <<input, outputFile, outputStdout, loadErr, fileTruncated,
                   targetClientsMap, run, prevOut>>
    /\ UNCHANGED libVars

\* The range over config.Clients ends.
MembersDone ==
    /\ pc = "member"
    /\ loop.ci > Len(config.Clients)
    /\ loop' = [loop EXCEPT !.ty = loop.ty + 1]
    /\ pc' = "type"
    /\ UNCHANGED <<input, outputFile, outputStdout, config, loadErr, panicMsg,
                   fileTruncated, out, targetClientsMap, run, prevOut>>
    /\ UNCHANGED libVars

\* The bullet of one type in the legend.
LegendBullet(customType) ==
    <<"* ">> \o T(TypeString(customType)) \o <<": ' ", customType.Badge, " '", "\n">>

\* The legend loop: one bullet for each type with a badge.
LegendBullets(types) ==
    LET withBadge == SelectSeq(types, LAMBDA t : t.Badge # "")
    IN  [i \in 1..Len(withBadge) |-> LegendBullet(withBadge[i])]

\* The range over config.Types ends: the divider, the legend, return nil
Legend ==
    /\ pc = "type"
    /\ loop.ty > Len(config.Types)
    /\ out' = out \o <<Divider>> \o LegendBullets(config.Types)
    /\ pc' = "done"
    /\ UNCHANGED <<input, outputFile, outputStdout, config, loadErr, panicMsg,
                   fileTruncated, targetClientsMap, loop, run, prevOut>>
    /\ UNCHANGED libVars

\* CreateMarkdownDocument is called again on the same config, with a new writer.
Rerun ==
    /\ pc = "done"
    /\ run < MaxRuns
    /\ prevOut' = out
    /\ out' = <<>>
    /\ run' = run + 1
    /\ loop' = NoLoop
    /\ targetClientsMap' = <<>>
    /\ pc' = "doc"
    /\ UNCHANGED <<input, outputFile, outputStdout, config, loadErr, panicMsg,
                   fileTruncated>>
    /\ UNCHANGED libVars

Next ==
    \/ LoadConfig
    \/ OpenOutput
    \/ BeginDocument
    \/ TargetStep
    \/ HasStep
    \/ RowStep
    \/ TableDone
    \/ HasDone
    \/ TargetsDone
    \/ TypeStep
    \/ MemberStep
    \/ MembersDone
    \/ Legend
    \/ Rerun

Spec == Init /\ [][Next]_vars


(* ------------------------- utils.go: the document nodes --------------- *)

\* Largest number of options given to NewText.
MaxOptions == 3

\* Largest number of cells in a header or a row given to a TableBuilder.
MaxCells == 2

\* Largest number of AddRow calls on a TableBuilder.
MaxRows == 2

\* The characters of the texts that take two bytes in UTF-8; every other token
\* of a rope is ASCII text.
TwoByteChars == {"é"}

RECURSIVE ByteLen(_)
\* len(val) of a Go string: its length in bytes.
ByteLen(s) ==
    IF s = <<>> THEN 0
    ELSE (IF Head(s) \in TwoByteChars THEN 2 ELSE Len(Head(s))) + ByteLen(Tail(s))

\* strings.Repeat("-", l)
RepeatDash(l) == [k \in 1..l |-> "-"]

\* The options of NewText, by name.
TextOptions == {"Bold", "Italic", "Strikethrough"}

\* Bold, Italic, Strikethrough: the option applied to a Text.
ApplyOption(t, option) ==
    CASE option = "Bold"          -> [t EXCEPT !.Bold = TRUE]
      [] option = "Italic"        -> [t EXCEPT !.Italic = TRUE]
      [] option = "Strikethrough" -> [t EXCEPT !.Strikethrough = TRUE]

RECURSIVE ApplyOptions(_, _)
ApplyOptions(t, options) ==
    IF options = <<>> THEN t
    ELSE ApplyOptions(ApplyOption(t, Head(options)), Tail(options))

\* NewText(s, options...)
NewText(s, options) ==
    ApplyOptions([node |-> "Text", string |-> s, Bold |-> FALSE, Italic |-> FALSE,
                  Strikethrough |-> FALSE], options)

\* &Link{Text: text, URL: url}
Link(text, url) == [node |-> "Link", Text |-> text, URL |-> url]

\* &Image{AltText: alt, ImageURL: url}
Image(alt, url) == [node |-> "Image", AltText |-> alt, ImageURL |-> url]

\* Text.Render; the markers are spelled one character a token, as the contents
\* are, so that equal texts are equal ropes.
TextRender(t) ==
    LET outer == (IF t.Bold THEN <<"*", "*">> ELSE <<>>)
                 \o (IF t.Italic THEN <<"*">> ELSE <<>>)
                 \o (IF t.Strikethrough THEN <<"~", "~">> ELSE <<>>)
    IN  outer \o t.string \o outer

RECURSIVE Render(_)
\* Render of a MarkdownRenderer: Text, Link or Image.
Render(n) ==
    CASE n.node = "Text"  -> TextRender(n)
      [] n.node = "Link"  -> <<"[">> \o Render(n.Text) \o <<"](">> \o n.URL \o <<")">>
      [] n.node = "Image" -> <<"![">> \o Render(n.AltText) \o <<"](">> \o n.ImageURL \o <<")">>

RECURSIVE JoinCells(_, _)
\* The cells of a row from cell number k on, each but the first after " | ".
JoinCells(row, k) ==
    IF k > Len(row) THEN <<>>
    ELSE (IF k > 1 THEN <<" | ">> ELSE <<>>) \o Render(row[k]) \o JoinCells(row, k + 1)

\* The dashes of a divider column without the least width of three.
DividerDashesUnclamped(val) == RepeatDash(ByteLen(val))

\* Table.writeHeader: the dashes of the divider column of a header cell.
DividerDashes(val) ==
    LET l == ByteLen(val)
    IN  RepeatDash(IF l < 3 THEN 3 ELSE l)

RECURSIVE DividerCells(_, _)
DividerCells(header, k) ==
    IF k > Len(header) THEN <<>>
    ELSE (IF k > 1 THEN <<" | ">> ELSE <<>>) \o DividerDashes(Render(header[k]))
         \o DividerCells(header, k + 1)

\* Table.writeHeader: the header line and the divider line.
writeHeader(t) ==
    <<"| ">> \o JoinCells(t.Header, 1) \o <<" |", "\n">>
    \o <<"| ">> \o DividerCells(t.Header, 1) \o <<" |", "\n">>

RECURSIVE RowLines(_, _)
RowLines(rows, k) ==
    IF k > Len(rows) THEN <<>>
    ELSE <<"| ">> \o JoinCells(rows[k], 1) \o <<" |", "\n">> \o RowLines(rows, k + 1)

\* Table.Render
TableRender(t) == writeHeader(t) \o RowLines(t.Rows, 1)

\* NewTableBuilder(headers...)
NewTableBuilder(headers) == [Header |-> headers, Rows |-> <<>>]

\* TableBuilder.AddRow(row...)
AddRow(t, row) == [t EXCEPT !.Rows = Append(t.Rows, row)]

\* TableBuilder.Build
Build(t) == [Header |-> t.Header, Rows |-> t.Rows]

\* The contents of the Text nodes: empty, ASCII, and with a two-byte character.
TextContents == { <<>>, <<"a">>, <<"a", "b", "c", "d">>, <<"é", "é">> }

\* The cells given as headers, and the cells given to AddRow.
HeaderPool ==
    { NewText(<<"a">>, <<>>), NewText(<<"a", "b", "c", "d">>, <<"Bold">>),
      NewText(<<"é", "é">>, <<>>) }

CellPool ==
    { NewText(<<"x">>, <<>>), Link(NewText(<<"y">>, <<"Italic">>), <<"https://example.org/">>) }

\* The generator's main has not started and never does.
MainIdle ==
    /\ input = NilConfig
    /\ outputFile = FALSE
    /\ outputStdout = FALSE
    /\ pc = "idle"
    /\ config = NilConfig
    /\ loadErr = NoError
    /\ panicMsg = NoPanic
    /\ fileTruncated = FALSE
    /\ out = <<>>
    /\ targetClientsMap = <<>>
    /\ loop = NoLoop
    /\ run = 0
    /\ prevOut = <<>>

InitNodes == MainIdle /\ DownloadIdle /\ NodeIdle /\ SorterIdle

\* t := NewText(s, options...)
NewTextCall ==
    /\ textNode = None
    /\ builder = None
    /\ \E s \in TextContents, options \in SeqsUpTo(TextOptions, MaxOptions) :
          textNode' = Ref(NewText(s, options))
    /\ UNCHANGED <<builder, table, markdown, mainVars, downloadVars, sorterVars>>

\* t.Render()
TextRenderCall ==
    /\ textNode # None
    /\ markdown = None
    /\ markdown' = Ref(TextRender(textNode[1]))
    /\ UNCHANGED <<textNode, builder, table, mainVars, downloadVars, sorterVars>>

\* b := NewTableBuilder(headers...)
NewTableBuilderCall ==
    /\ textNode = None
    /\ builder = None
    /\ \E headers \in SeqsUpTo(HeaderPool, MaxCells) :
          builder' = Ref(NewTableBuilder(headers))
    /\ UNCHANGED <<textNode, table, markdown, mainVars, downloadVars, sorterVars>>

\* b.AddRow(row...)
AddRowCall ==
    /\ builder # None
    /\ table = None
    /\ Len(builder[1].Rows) < MaxRows
    /\ \E row \in SeqsUpTo(CellPool, MaxCells) :
          builder' = Ref(AddRow(builder[1], row))
    /\ UNCHANGED <<textNode, table, markdown, mainVars, downloadVars, sorterVars>>

\* t := b.Build()
BuildCall ==
    /\ builder # None
    /\ table = None
    /\ table' = Ref(Build(builder[1]))
    /\ UNCHANGED <<textNode, builder, markdown, mainVars, downloadVars, sorterVars>>

\* t.Render()
TableRenderCall ==
    /\ table # None
    /\ markdown = None
    /\ markdown' = Ref(TableRender(table[1]))
    /\ UNCHANGED <<textNode, builder, table, mainVars, downloadVars, sorterVars>>

NextNodes ==
    \/ NewTextCall
    \/ TextRenderCall
    \/ NewTableBuilderCall
    \/ AddRowCall
    \/ BuildCall
    \/ TableRenderCall

SpecNodes == InitNodes /\ [][NextNodes]_vars


(* ------------------------- the download renderers --------------------- *)

\* The reserved characters url.PathEscape keeps and url.QueryEscape escapes.
PathKept == {"$", "&", "+", "=", ":", "@"}

\* The percent code of the characters the inputs use that can be escaped.
PercentCode ==
    [c \in {" ", "/", "?", ";", ",", "$", "&", "+", "=", ":", "@", "#"} |->
        CASE c = " " -> "%20" [] c = "/" -> "%2F" [] c = "?" -> "%3F" [] c = ";" -> "%3B"
          [] c = "," -> "%2C" [] c = "$" -> "%24" [] c = "&" -> "%26" [] c = "+" -> "%2B"
          [] c = "=" -> "%3D" [] c = ":" -> "%3A" [] c = "@" -> "%40" [] c = "#" -> "%23"]

\* url.PathEscape; a token that is no character of PercentCode is letters and
\* digits.
PathEscape(s) ==
    [k \in 1..Len(s) |->
        IF s[k] \in DOMAIN PercentCode /\ s[k] \notin PathKept THEN PercentCode[s[k]]
        ELSE s[k]]

\* url.QueryEscape
QueryEscape(s) ==
    [k \in 1..Len(s) |->
        IF s[k] = " " THEN "+"
        ELSE IF s[k] \in DOMAIN PercentCode THEN PercentCode[s[k]]
        ELSE s[k]]

\* isEmpty of a string
isEmpty(val) == val = <<>>

\* preconditions(name, values): the panics it can end in, none when no value
\* is empty; with several empty values the map iteration order decides which.
preconditions(name, values) ==
    { <<k, " is required for ", name, " download">> :
        k \in {x \in DOMAIN values : isEmpty(values[x])} }

\* first(vals...)
first(vals) ==
    IF \E k \in 1..Len(vals) : ~isEmpty(vals[k])
    THEN vals[CHOOSE k \in 1..Len(vals) :
                 ~isEmpty(vals[k]) /\ \A j \in 1..(k - 1) : isEmpty(vals[j])]
    ELSE vals[Len(vals)]

\* What a Render call ends in: the node it returns, or a panic.
Returned(n) == [panicked |-> FALSE, panic |-> <<>>, node |-> n]

Panicked(msg) == [panicked |-> TRUE, panic |-> msg, node |-> [node |-> "nil"]]

\* A Render that checks its preconditions and then returns node n.
Checked(panics, n) ==
    IF panics # {} THEN {Panicked(msg) : msg \in panics} ELSE {Returned(n)}

\* GitHubDownload.Render that links to the repository without /releases.
GitHubDownloadRenderNoReleases(g) ==
    Checked(preconditions("GitHub", [Owner |-> g.Owner, Repo |-> g.Repo]),
            Link(Image(NewText(<<"github">>, <<>>),
                       <<"https://img.shields.io/github/downloads/">> \o PathEscape(g.Owner)
                       \o <<"/">> \o PathEscape(g.Repo) \o <<"/total?logo=github&label=">>
                       \o QueryEscape(IF g.Label # <<>> THEN g.Label ELSE <<"GitHub">>)),
                 first(<<g.URL, <<"https://github.com/">> \o g.Owner \o <<"/">> \o g.Repo>>)))

\* GitHubDownload.Render
GitHubDownloadRender(g) ==
    LET u == first(<<g.URL, <<"https://github.com/">> \o g.Owner \o <<"/">> \o g.Repo
                              \o <<"/releases">> >>)
        label == IF g.Label # <<>> THEN g.Label ELSE <<"GitHub">>
    IN  Checked(preconditions("GitHub", [Owner |-> g.Owner, Repo |-> g.Repo]),
                Link(Image(NewText(<<"github">>, <<>>),
                           <<"https://img.shields.io/github/downloads/">>
                           \o PathEscape(g.Owner) \o <<"/">> \o PathEscape(g.Repo)
                           \o <<"/total?logo=github&label=">> \o QueryEscape(label)),
                     u))

\* IconDownload.Render
IconDownloadRender(d) ==
    Checked(preconditions("Icon", [Icon |-> d.Icon, URL |-> d.URL]),
            Link(Image(NewText(d.Icon, <<>>),
                       <<"assets/clients/icons/">> \o PathEscape(d.Icon) \o <<".png">>),
                 d.URL))

\* TextDownload.Render
TextDownloadRender(t) ==
    Checked(preconditions("Text", [Text |-> t.Text, URL |-> t.URL]),
            Link(NewText(t.Text, <<>>), t.URL))

\* FlathubDownload.Render
FlathubDownloadRender(f) ==
    LET u == first(<<f.URL, <<"https://flathub.org/apps/">> \o f.Package>>)
    IN  Checked(preconditions("Flathub", [Package |-> f.Package]),
                Link(Image(NewText(<<"flathub">>, <<>>),
                           <<"https://img.shields.io/flathub/downloads/">>
                           \o PathEscape(f.Package) \o <<"?logo=Flathub&label=Flathub">>),
                     u))

\* DockerDownload.Render
DockerDownloadRender(d) ==
    LET u == first(<<d.URL, <<"https://hub.docker.com/r/">> \o d.User \o <<"/">> \o d.Repo>>)
    IN  Checked(preconditions("Docker", [User |-> d.User, Repo |-> d.Repo]),
                Link(Image(NewText(<<"docker">>, <<>>),
                           <<"https://img.shields.io/docker/pulls/">> \o PathEscape(d.User)
                           \o <<"/">> \o PathEscape(d.Repo) \o <<"?logo=docker&label=Docker">>),
                     u))

\* A CustomShieldDownload value; Content is a *string.
CustomShieldDownload(label, content, icon, color, url) ==
    [kind |-> "shield", Label |-> label, Content |-> content, Icon |-> icon,
     Color |-> color, URL |-> url]

\* CustomShieldDownload.Render
CustomShieldDownloadRender(c) ==
    LET color == first(<<c.Color, <<"grey">> >>)
        alt == first(<<c.Label, c.Icon, <<"alt">> >>)
        content == IF c.Content # Nil THEN c.Content[1]
                   ELSE IF c.Icon # <<>> THEN c.Icon
                   ELSE <<>>
    IN  Checked(preconditions("CustomShield", [URL |-> c.URL]),
                Link(Image(NewText(alt, <<>>),
                           <<"https://img.shields.io/badge/">> \o PathEscape(content)
                           \o <<"-">> \o color \o <<"?logo=">> \o QueryEscape(c.Icon)
                           \o <<"&label=">> \o QueryEscape(c.Label)),
                     c.URL))

\* GitLabDownload.Render
GitLabDownloadRender(g) ==
    LET u == first(<<g.URL, <<"https://gitlab.com/">> \o PathEscape(g.Owner) \o <<"/">>
                              \o PathEscape(g.Repo)>>)
    IN  CustomShieldDownloadRender(CustomShieldDownload(<<>>, Nil, <<"GitLab">>, <<>>, u))

\* DemoDownload.Render
DemoDownloadRender(d) ==
    CustomShieldDownloadRender(
        CustomShieldDownload(<<"Demo">>, Ref(<<"Web">>), <<>>, <<"blue">>, d.URL))

\* AppStoreDownload.Render
AppStoreDownloadRender(a) ==
    LET u == first(<<a.URL, <<"https://apps.apple.com/app/id">> \o a.ID>>)
    IN  CustomShieldDownloadRender(
            CustomShieldDownload(<<>>, Nil, <<"App", " ", "Store">>, <<>>, u))

\* GooglePlayDownload.Render
GooglePlayDownloadRender(g) ==
    LET u == first(<<g.URL, <<"https://play.google.com/store/apps/details?id=">> \o g.ID>>)
    IN  CustomShieldDownloadRender(
            CustomShieldDownload(<<>>, Nil, <<"Google", " ", "Play">>, <<>>, u))

\* The values of the fields of the downloads: none, plain, and with characters
\* that the URL escapes change.
Words == { <<>>, <<"j", "f">>, <<"a", "/", "b", " ", "c">> }

Plain == { <<>>, <<"j", "f">> }

URLs == { <<>>, <<"https://example.org/app">> }

\* The Download values Downloads.UnmarshalYAML can decode, one family a kind.
DownloadPool ==
    { [kind |-> "github", Owner |-> o, Repo |-> r, URL |-> u, Label |-> l] :
        o \in Words, r \in Words, u \in URLs, l \in Words }
    \cup { [kind |-> "icon", Icon |-> x, URL |-> u] : x \in Words, u \in URLs }
    \cup { [kind |-> "text", Text |-> x, URL |-> u] : x \in Plain, u \in URLs }
    \cup { [kind |-> "flathub", Package |-> x, URL |-> u] : x \in Plain, u \in URLs }
    \cup { [kind |-> "docker", User |-> x, Repo |-> r, URL |-> u] :
             x \in Plain, r \in Plain, u \in URLs }
    \cup { CustomShieldDownload(l, c, x, k, u) :
             l \in Plain, c \in {Nil, Ref(<<>>), Ref(<<"W", "e", "b">>)}, x \in Plain,
             k \in {<<>>, <<"blue">>}, u \in URLs }
    \cup { [kind |-> "gitlab", Owner |-> o, Repo |-> r, URL |-> u] :
             o \in Plain, r \in Plain, u \in URLs }
    \cup { [kind |-> "demo", URL |-> u] : u \in URLs }
    \cup { [kind |-> "app-store", ID |-> x, URL |-> u] : x \in Plain, u \in URLs }
    \cup { [kind |-> "google-play", ID |-> x, URL |-> u] : x \in Plain, u \in URLs }

InitDownloads ==
    /\ MainIdle
    /\ NodeIdle
    /\ SorterIdle
    /\ download \in DownloadPool
    /\ rendered = None

\* d.Render() ends in one of the outcomes.
RenderCall(outcomes) ==
    /\ rendered = None
    /\ \E r \in outcomes : rendered' = Ref(r)
    /\ UNCHANGED <<download, mainVars, nodeVars, sorterVars>>

GitHubRenderCall ==
    /\ download.kind = "github"
    /\ RenderCall(GitHubDownloadRender(download))

IconRenderCall ==
    /\ download.kind = "icon"
    /\ RenderCall(IconDownloadRender(download))

TextDownloadRenderCall ==
    /\ download.kind = "text"
    /\ RenderCall(TextDownloadRender(download))

FlathubRenderCall ==
    /\ download.kind = "flathub"
    /\ RenderCall(FlathubDownloadRender(download))

DockerRenderCall ==
    /\ download.kind = "docker"
    /\ RenderCall(DockerDownloadRender(download))

CustomShieldRenderCall ==
    /\ download.kind = "shield"
    /\ RenderCall(CustomShieldDownloadRender(download))

GitLabRenderCall ==
    /\ download.kind = "gitlab"
    /\ RenderCall(GitLabDownloadRender(download))

DemoRenderCall ==
    /\ download.kind = "demo"
    /\ RenderCall(DemoDownloadRender(download))

AppStoreRenderCall ==
    /\ download.kind = "app-store"
    /\ RenderCall(AppStoreDownloadRender(download))

GooglePlayRenderCall ==
    /\ download.kind = "google-play"
    /\ RenderCall(GooglePlayDownloadRender(download))

NextDownloads ==
    \/ GitHubRenderCall
    \/ IconRenderCall
    \/ TextDownloadRenderCall
    \/ FlathubRenderCall
    \/ DockerRenderCall
    \/ CustomShieldRenderCall
    \/ GitLabRenderCall
    \/ DemoRenderCall
    \/ AppStoreRenderCall
    \/ GooglePlayRenderCall

SpecDownloads == InitDownloads /\ [][NextDownloads]_vars


(* ------------------------- the README bullet sorter ------------------- *)

\* Largest number of lines in the sorter's input file.
MaxLines == 4

\* strings.Contains: rope sub is a contiguous part of rope s.
Contains(s, sub) ==
    \E k \in 0..(Len(s) - Len(sub)) : SubSeq(s, k + 1, k + Len(sub)) = sub

\* strings.TrimPrefix
TrimPrefix(s, prefix) ==
    IF HasPrefix(s, prefix) THEN SubSeq(s, Len(prefix) + 1, Len(s)) ELSE s

SortMarker == <<"<", "!", "-", "-", "s", "o", "r", "t", "-", "-", ">">>

\* RemoveChars; the backquote and the typographic apostrophe, which a TLA+
\* string cannot hold, are in no input line.
RemoveChars == <<" ", "-", "_", "(", ")", ".", "'", ",", ":", "!", "?">>

\* The ASCII characters of the lines in the order of their codes.
Ascii ==
    <<" ", "!", "#", "$", "%", "&", "'", "(", ")", "*", "+", ",", "-", ".", "/",
      "0", "1", "2", "3", "4", "5", "6", "7", "8", "9", ":", ";", "<", "=", ">", "?", "@">>
    \o UpperLetters \o <<"[", "]", "^", "_">> \o LowerLetters \o <<"{", "|", "}", "~">>

ByteOf(c) == CHOOSE k \in 1..Len(Ascii) : Ascii[k] = c

RECURSIVE StringLess(_, _)
\* cA < cB of two Go strings: byte by byte, a proper prefix first.
StringLess(a, b) ==
    IF b = <<>> THEN FALSE
    ELSE IF a = <<>> THEN TRUE
    ELSE IF Head(a) # Head(b) THEN ByteOf(Head(a)) < ByteOf(Head(b))
    ELSE StringLess(Tail(a), Tail(b))

RECURSIVE BracketScan(_, _, _, _, _)
\* The loop of findTextBetweenBrackets from character k on, with the depth of
\* the bracket stack: [panicked, title].
BracketScan(s, k, depth, capturing, bracketTitle) ==
    IF k > Len(s) THEN [panicked |-> FALSE, title |-> bracketTitle]
    ELSE IF s[k] = "[" THEN BracketScan(s, k + 1, depth + 1, capturing, bracketTitle)
    ELSE IF s[k] = "]"
    THEN IF depth = 0 THEN [panicked |-> TRUE, title |-> <<>>]
         ELSE BracketScan(s, k + 1, depth - 1, capturing /\ depth - 1 # 0, bracketTitle)
    ELSE BracketScan(s, k + 1, depth, capturing,
                     IF capturing THEN Append(bracketTitle, s[k]) ELSE bracketTitle)

\* findTextBetweenBrackets
findTextBetweenBrackets(s) ==
    IF ~Contains(s, <<"[">>) THEN [panicked |-> FALSE, title |-> <<>>]
    ELSE BracketScan(s, 1, 0, TRUE, <<>>)

RECURSIVE RemoveEach(_, _)
\* for _, c := range RemoveChars { canon = strings.ReplaceAll(canon, c, "") }
RemoveEach(canon, chars) ==
    IF chars = <<>> THEN canon ELSE RemoveEach(RemoveAll(canon, Head(chars)), Tail(chars))

\* canonicalize: [panicked, canon]
canonicalize(line) ==
    LET l == TrimSpace(TrimPrefix(line, <<"-", " ">>))
        found == findTextBetweenBrackets(l)
        bracketTitle == IF found.title = <<>> THEN l ELSE found.title
    IN  [panicked |-> found.panicked,
         canon |-> IF found.panicked THEN <<>>
                   ELSE RemoveEach(ToLower(bracketTitle), RemoveChars)]

\* The less function with the keys compared the other way round.
lessBlocksDescending(a, b) ==
    IF a.canonical = b.canonical THEN a.originalIdx < b.originalIdx
    ELSE StringLess(b.canonical, a.canonical)

\* The less function given to sort.SliceStable.
lessBlocks(a, b) ==
    IF a.canonical = b.canonical THEN a.originalIdx < b.originalIdx
    ELSE StringLess(a.canonical, b.canonical)

RECURSIVE InsertBlock(_, _)
\* blk put into a sorted list, after every block that is not greater.
InsertBlock(sorted, blk) ==
    IF sorted = <<>> THEN <<blk>>
    ELSE IF lessBlocks(blk, Head(sorted)) THEN <<blk>> \o sorted
    ELSE <<Head(sorted)>> \o InsertBlock(Tail(sorted), blk)

RECURSIVE SliceStable(_)
\* sort.SliceStable(blocks, less)
SliceStable(bs) ==
    IF bs = <<>> THEN <<>>
    ELSE InsertBlock(SliceStable(SubSeq(bs, 1, Len(bs) - 1)), bs[Len(bs)])

RECURSIVE BlockLines(_)
\* for _, blk := range blocks { for _, l := range blk.lines { output = append(output, l) } }
BlockLines(bs) == IF bs = <<>> THEN <<>> ELSE Head(bs).lines \o BlockLines(Tail(bs))

\* The lines of the input files: the marker, a bullet holding the marker,
\* bullets whose keys differ, agree or come from a bracketed title, a bullet
\* with an unbalanced bracket, a child line, a blank line and a heading.
LinePool ==
    { SortMarker,
      <<"-", " ">> \o SortMarker,
      <<"-", " ", "b">>,
      <<"-", " ", "a">>,
      <<"-", " ", "[", "A", "]">>,
      <<"-", " ", "]", "[">>,
      <<" ", "c">>,
      <<>>,
      <<"#", "h">> }

\* lines[i] of the code, whose indices start at 0.
LineAt(k) == lines[k + 1]

\* The text of the output: each output line is kept as the index of the input
\* line it is a copy of.
OutputText == [k \in 1..Len(output) |-> LineAt(output[k])]

InitSorter ==
    /\ MainIdle
    /\ DownloadIdle
    /\ NodeIdle
    /\ lines \in SeqsUpTo(LinePool, MaxLines)
    /\ output = <<>>
    /\ lineIndex = 0
    /\ blocks = <<>>
    /\ sortPc = "scan"

\* The inner loop stops at line nextLine: a blank line or a heading.
EndsList(nextLine) == TrimSpace(nextLine) = <<>> \/ HasPrefix(nextLine, <<"#">>)

\* output = append(output, line); i++ for a line without the marker
PassLine ==
    /\ sortPc = "scan"
    /\ lineIndex < Len(lines)
    /\ ~Contains(LineAt(lineIndex), SortMarker)
    /\ output' = Append(output, lineIndex)
    /\ lineIndex' = lineIndex + 1
    /\ UNCHANGED <<lines, blocks, sortPc, mainVars, downloadVars, nodeVars>>

\* A line with the marker is kept, and the inner loop starts.
MarkerLine ==
    /\ sortPc = "scan"
    /\ lineIndex < Len(lines)
    /\ Contains(LineAt(lineIndex), SortMarker)
    /\ output' = Append(output, lineIndex)
    /\ lineIndex' = lineIndex + 1
    /\ blocks' = <<>>
    /\ sortPc' = "block"
    /\ UNCHANGED <<lines, mainVars, downloadVars, nodeVars>>

\* One pass of the inner loop that does not leave it: a top-level bullet opens a
\* block, any other line joins the last block.
BlockLine ==
    /\ sortPc = "block"
    /\ lineIndex < Len(lines)
    /\ LET nextLine == LineAt(lineIndex)
           isTopLevelBullet == HasPrefix(nextLine, <<"-", " ">>)
           c == canonicalize(nextLine)
       IN  /\ ~EndsList(nextLine)
           /\ isTopLevelBullet \/ Len(blocks) # 0
           /\ IF isTopLevelBullet /\ c.panicked
              THEN /\ sortPc' = "panic"
                   /\ UNCHANGED <<blocks, lineIndex>>
              ELSE /\ blocks' =
                        IF isTopLevelBullet
                        THEN Append(blocks, [lines |-> <<lineIndex>>, canonical |-> c.canon,
                                             originalIdx |-> Len(blocks)])
                        ELSE [blocks EXCEPT ![Len(blocks)].lines = Append(@, lineIndex)]
                   /\ lineIndex' = lineIndex + 1
                   /\ UNCHANGED sortPc
    /\ UNCHANGED <<lines, output, mainVars, downloadVars, nodeVars>>

\* The inner loop ends, at the end of the file, at a blank line or a heading, or
\* at a line that is no bullet when there is no block yet; the blocks are sorted
\* and appended to the output.
SortBlocks ==
    /\ sortPc = "block"
    /\ \/ lineIndex >= Len(lines)
       \/ /\ lineIndex < Len(lines)
          /\ \/ EndsList(LineAt(lineIndex))
             \/ ~HasPrefix(LineAt(lineIndex), <<"-", " ">>) /\ Len(blocks) = 0
    /\ output' = output \o BlockLines(SliceStable(blocks))
    /\ blocks' = SliceStable(blocks)
    /\ sortPc' = "scan"
    /\ UNCHANGED <<lines, lineIndex, mainVars, downloadVars, nodeVars>>

\* The outer loop ends and the output lines are written to the writer.
WriteOutput ==
    /\ sortPc = "scan"
    /\ lineIndex >= Len(lines)
    /\ sortPc' = "done"
    /\ UNCHANGED <<lines, output, lineIndex, blocks, mainVars, downloadVars, nodeVars>>

NextSorter ==
    \/ PassLine
    \/ MarkerLine
    \/ BlockLine
    \/ SortBlocks
    \/ WriteOutput

SpecSorter == InitSorter /\ [][NextSorter]_vars


(* ------------------------- reading the written text ------------------- *)

\* A chunk written by the Fprintf of PrintClientTableRow.
IsRow(chunk) == Len(chunk) > 1 /\ chunk[1] = "| "

IsTableHeader(chunk) == chunk = PrintTableHeader[1]

\* The first position of token t in rope s, Len(s) + 1 if it is not there.
IndexOf(s, t) ==
    IF \E k \in 1..Len(s) : s[k] = t
    THEN CHOOSE k \in 1..Len(s) : s[k] = t /\ \A j \in 1..(k - 1) : s[j] # t
    ELSE Len(s) + 1

RECURSIVE SplitOn(_, _)
\* The pieces of rope s between the occurrences of token sep.
SplitOn(s, sep) ==
    LET k == IndexOf(s, sep)
    IN  IF k > Len(s) THEN <<s>>
        ELSE <<SubSeq(s, 1, k - 1)>> \o SplitOn(SubSeq(s, k + 1, Len(s)), sep)

\* The five cells of a row: Name, OSS, Free, Paid, Downloads.
Cells(row) == SplitOn(SubSeq(row, 2, Len(row) - 1), " | ")

\* The text of a link cell "[text](url)", the whole cell if it is no link.
LinkText(cell) ==
    IF cell # <<>> /\ cell[1] = "[" THEN SubSeq(cell, 2, IndexOf(cell, "](") - 1) ELSE cell

\* The name a row shows: the link text up to the first badge.
RowName(row) ==
    LET text == LinkText(Cells(row)[1])
    IN  SubSeq(text, 1, IndexOf(text, " ' ") - 1)

\* The badge glyphs a row shows after the name.
RowBadges(row) ==
    LET text == LinkText(Cells(row)[1])
    IN  {text[k + 1] : k \in {j \in 1..(Len(text) - 2) : text[j] = " ' " /\ text[j + 2] = " '"}}

\* The rows of the table whose header is chunk number p of o: every second
\* chunk after the two header lines, as long as it is a row.
RECURSIVE RowsFrom(_, _)
RowsFrom(o, q) ==
    IF q <= Len(o) /\ IsRow(o[q]) THEN <<o[q]>> \o RowsFrom(o, q + 2) ELSE <<>>

TableRows(o, p) == RowsFrom(o, p + 2)

\* Where the "By Type" heading is in o, Len(o) + 1 if it is not there.
ByTypeAt(o) ==
    IF \E p \in 1..Len(o) : o[p] = <<"# ", "By Type", "\n">>
    THEN CHOOSE p \in 1..Len(o) : o[p] = <<"# ", "By Type", "\n">>
    ELSE Len(o) + 1

\* The position of a character in the collating order of the names.
CharRank(c) ==
    IF \E i \in 1..Len(LowerLetters) : LowerLetters[i] = c
    THEN 100 + CHOOSE i \in 1..Len(LowerLetters) : LowerLetters[i] = c
    ELSE IF \E i \in 1..Len(UpperLetters) : UpperLetters[i] = c
    THEN 60 + CHOOSE i \in 1..Len(UpperLetters) : UpperLetters[i] = c
    ELSE 0

RECURSIVE StrLess(_, _)
\* a < b, compared character by character as Go compares strings.
StrLess(a, b) ==
    IF b = <<>> THEN FALSE
    ELSE IF a = <<>> THEN TRUE
    ELSE IF CharRank(Head(a)) # CharRank(Head(b)) THEN CharRank(Head(a)) < CharRank(Head(b))
    ELSE StrLess(Tail(a), Tail(b))

\* rows are in ascending order of their lower-cased names.
SortedByName(rows) ==
    \A i, j \in 1..Len(rows) :
        i < j => ~StrLess(ToLower(RowName(rows[j])), ToLower(RowName(rows[i])))

(* ------------------------- C1 ----------------------------------------- *)

\* C1: in every environment table, two clients that share a target identifier
\* are listed in ascending order of their names compared case-insensitively
\* ("apple" before "Zeta"), whatever their order in the config.
C1_EnvironmentTablesSorted ==
    \A p \in 1..Len(out) :
        (IsTableHeader(out[p]) /\ p < ByTypeAt(out)) => SortedByName(TableRows(out, p))


(* ------------------------- rows and the clients they are for ---------- *)

\* The step about to be taken is a PrintClientTableRow call.
RowCalled ==
    \/ pc = "rows" /\ loop.ri <= Len(CurrentBucket)
    \/ /\ pc = "member"
       /\ loop.ci <= Len(config.Clients)
       /\ \E j \in 1..Len(config.Clients[loop.ci].Types) :
             config.Clients[loop.ci].Types[j] = config.Types[loop.ty].Key

\* The number of the client that call is for.
CalledClient == IF pc = "rows" THEN CurrentBucket[loop.ri] ELSE loop.ci

\* That client as the config file gives it.
GivenClient == input.Clients[CalledClient]

\* The call returns and has written its row.
RowWritten == RowCalled /\ pc' # "panic"

WrittenRow == out'[Len(out') - 1]

\* The last step was a PrintClientTableRow call of an environment table that
\* wrote its row: the row, and the client as the config file gives it.
EnvRowJustWritten == pc = "rows" /\ loop.ri > 1

LastEnvRow == out[Len(out) - 1]

LastEnvClient == input.Clients[CurrentBucket[loop.ri - 1]]

Tokens(s) == {s[k] : k \in 1..Len(s)}

(* ------------------------- C2 ----------------------------------------- *)

\* The client is official: the flag is true, or unset with an open-source URL
\* under the Jellyfin organisation.
OfficialWanted(c) ==
    \/ c.Official = Ref(TRUE)
    \/ c.Official = Nil /\ HasPrefix(c.OpenSourceURL, JellyfinOrgURL)

\* The glyph the types list gives the Official badge, "" if it gives none.
OfficialGlyph ==
    IF \E i \in 1..Len(config.Types) : config.Types[i].Key = OfficialTypeKey
    THEN config.Types[FindType(config.Types, OfficialTypeKey)].Badge
    ELSE ""

\* C2: a row written by PrintClientTableRow shows the Official badge (the glyph
\* the types list gives the Official type) exactly when the client's official
\* flag is true, or is unset while its open-source URL starts with
\* https://github.com/jellyfin/; never when the flag is explicitly false.
C2_OfficialBadge ==
    [][(RowWritten /\ OfficialGlyph # "")
       => ((OfficialGlyph \in RowBadges(WrittenRow)) <=> OfficialWanted(GivenClient))]_vars

C2_Witness ==
    /\ EnvRowJustWritten
    /\ LastEnvClient.Official = Nil
    /\ HasPrefix(LastEnvClient.OpenSourceURL, JellyfinOrgURL)
    /\ OfficialGlyph # ""
    /\ OfficialGlyph \in RowBadges(LastEnvRow)

(* ------------------------- C3 ----------------------------------------- *)

\* The type keys the row of client c needs a badge for.
NeededKeys(c) ==
    (IF OfficialWanted(c) THEN {OfficialTypeKey} ELSE {})
    \cup (IF c.Beta = Ref(TRUE) THEN {BetaTypeKey} ELSE {})
    \cup Tokens(c.Types)

\* C3: a PrintClientTableRow call for a client that needs a badge whose key is
\* not among config.Types ends the run with a panic, and writes no row.
C3_UnknownTypeFatal ==
    [][(/\ RowCalled
        /\ \E k \in NeededKeys(GivenClient) :
              \A i \in 1..Len(config.Types) : config.Types[i].Key # k)
       => /\ pc' = "panic"
          /\ panicMsg' # NoPanic
          /\ \A q \in (Len(out) + 1)..Len(out') : ~IsRow(out'[q])]_vars

C3_Witness ==
    /\ pc = "panic"
    /\ panicMsg = "cannot find type with key"
    /\ \E i \in 1..Len(input.Clients) : "Ghost" \in Tokens(input.Clients[i].Types)

(* ------------------------- C4 ----------------------------------------- *)

\* C4: when document generation fails part-way (an unknown type key, a download
\* that cannot be rendered), nothing has been written to the writer.
C4_NothingWrittenOnFailure ==
    (pc = "panic" /\ loadErr = NoError) => out = <<>>

(* ------------------------- C5 ----------------------------------------- *)

\* The download items of the input file.
InputItems == UNION {Tokens(input.Clients[i].Downloads) : i \in 1..Len(input.Clients)}

\* The item's type is a string that names none of the ten kinds, or is absent.
Unregistered(d) ==
    \/ ~d.type.present
    \/ /\ d.type.isString
       /\ d.type.str \notin {"icon", "text", "github", "flathub", "docker", "shield",
                             "gitlab", "demo", "app-store", "google-play"}

C6_RerunWritesSameText ==
    (pc = "done" /\ run > 1) => out = prevOut

C6_Witness ==
    /\ pc = "done"
    /\ run = 2
    /\ out # <<>>
    /\ config # Decoded(input)

(* ------------------------- C7 ----------------------------------------- *)

\* C7: the Name cell of a row is a link to the website when that is not empty,
\* otherwise a link to the open-source URL; when both are empty it is the name
\* and its badges as plain text, with no link syntax.
C7_NameCellLink ==
    [][RowWritten =>
        LET c == GivenClient
            cell == Cells(WrittenRow)[1]
            url == IF c.Website # <<>> THEN c.Website ELSE c.OpenSourceURL
        IN  IF url # <<>>
            THEN /\ cell[1] = "["
                 /\ SubSeq(cell, IndexOf(cell, "]("), Len(cell)) = <<"](">> \o url \o <<")">>
            ELSE /\ Tokens(cell) \cap {"[", "](", ")"} = {}
                 /\ SubSeq(cell, 1, Len(c.Name)) = c.Name]_vars

(* ------------------------- C8 ----------------------------------------- *)

\* C8: in a row, the OSS cell is good-true when the open-source URL is not empty
\* and bad-false otherwise; the Free cell is good-true when price.free is true,
\* or unset with a non-empty open-source URL, and bad-false otherwise (an
\* explicit false is kept); the Paid cell is bad-true when price.paid is true
\* and good-false when it is false or unset.
C8_OssFreePaidCells ==
    [][RowWritten =>
        LET c == GivenClient
            cells == Cells(WrittenRow)
        IN  /\ Len(cells) = 5
            /\ cells[2] = <<IF c.OpenSourceURL # <<>> THEN GoodTrue ELSE BadFalse>>
            /\ cells[3] = <<IF \/ c.Price.Free = Ref(TRUE)
                               \/ c.Price.Free = Nil /\ c.OpenSourceURL # <<>>
                            THEN GoodTrue ELSE BadFalse>>
            /\ cells[4] = <<IF c.Price.Paid = Ref(TRUE) THEN BadTrue ELSE GoodFalse>>]_vars

C8_Witness ==
    /\ EnvRowJustWritten
    /\ LastEnvClient.Price.Free = Ref(FALSE)
    /\ LastEnvClient.OpenSourceURL # <<>>
    /\ LastEnvClient.Price.Paid = Ref(TRUE)
    /\ Cells(LastEnvRow)[3] = <<BadFalse>>
    /\ Cells(LastEnvRow)[4] = <<BadTrue>>

(* ------------------------- C9 ----------------------------------------- *)

\* The members of set S of numbers, in ascending order.
Ascending(S) ==
    CHOOSE f \in [1..Cardinality(S) -> S] : \A i, j \in 1..Cardinality(S) : i < j => f[i] < f[j]

\* The clients of the config file that carry type key k, by number, in config order.
Members(k) == Ascending({i \in 1..Len(input.Clients) : k \in Tokens(input.Clients[i].Types)})

\* ns is ms put in ascending order of the lower-cased names.
IsSortedCopy(ns, ms) ==
    /\ Len(ns) = Len(ms)
    /\ \A n \in Tokens(ns) \cup Tokens(ms) :
          Cardinality({i \in 1..Len(ns) : ns[i] = n})
            = Cardinality({i \in 1..Len(ms) : ms[i] = n})
    /\ \A i, j \in 1..Len(ns) : i < j => ~StrLess(ToLower(ns[j]), ToLower(ns[i]))

\* C9: when a type has section = true, the finished document has, after the
\* environment section, a divider and the level-1 heading "By Type", then for
\* each section type in config order with a client carrying its key a level-2
\* heading and a table of exactly the clients carrying that key, sorted by
\* name; a section type no client carries has no heading and no table; with no
\* section type there is no "By Type" heading.
C9_ByTypeSections ==
    pc = "done" =>
        LET anySection == \E i \in 1..Len(input.Types) : input.Types[i].Section
            sect == SelectSeq(input.Types, LAMBDA t : t.Section /\ Members(t.Key) # <<>>)
            at == ByTypeAt(out)
            tables == Ascending({p \in 1..Len(out) : p > at /\ IsTableHeader(out[p])})
        IN  /\ anySection <=> at <= Len(out)
            /\ anySection => (at > 1 /\ out[at - 1] = Divider)
            /\ \A p \in 1..Len(out) : IsTableHeader(out[p]) /\ p < at => out[p - 1][1] # "\n"
            /\ Len(tables) = Len(sect)
            /\ \A k \in 1..Len(tables) :
                  LET head == out[tables[k] - 1]
                      rows == TableRows(out, tables[k])
                      mems == Members(sect[k].Key)
                  IN  /\ SubSeq(head, 1, 2) = <<"\n", "## ">>
                      /\ TypeString(sect[k]) \in Tokens(head)
                      /\ IsSortedCopy([i \in 1..Len(rows) |-> RowName(rows[i])],
                                      [i \in 1..Len(mems) |-> input.Clients[mems[i]].Name])

(* ------------------------- C10 ---------------------------------------- *)

\* The legend bullet of a type: **<display>** '<badge>'
BoldBullet(t) == <<"* ", "**">> \o T(TypeString(t)) \o <<"**", " ", "'", t.Badge, "'", "\n">>

\* C10: for every config, with or without section types and also with an empty
\* types list, the finished document ends with a divider and the legend: one
\* bullet **<display>** '<badge>' for each type with a badge, in config order,
\* and none for a type without a badge.
C10_LegendEndsDocument ==
    pc = "done" =>
        LET withBadge == SelectSeq(input.Types, LAMBDA t : t.Badge # "")
            n == Len(withBadge)
        IN  /\ Len(out) > n
            /\ out[Len(out) - n] = Divider
            /\ \A k \in 1..n : out[Len(out) - n + k] = BoldBullet(withBadge[k])

(* ------------------------- C11 ---------------------------------------- *)

\* The fields a download kind needs; GitLab, AppStore and GooglePlay need theirs
\* when no explicit URL is given.
Needed(d) ==
    CASE d.kind = "icon"        -> {"Icon", "URL"}
      [] d.kind = "text"        -> {"Text", "URL"}
      [] d.kind = "github"      -> {"Owner", "Repo"}
      [] d.kind = "flathub"     -> {"Package"}
      [] d.kind = "docker"      -> {"User", "Repo"}
      [] d.kind = "shield"      -> {"URL"}
      [] d.kind = "demo"        -> {"URL"}
      [] d.kind = "gitlab"      -> IF d.URL = <<>> THEN {"Owner", "Repo"} ELSE {}
      [] d.kind = "app-store"   -> IF d.URL = <<>> THEN {"ID"} ELSE {}
      [] d.kind = "google-play" -> IF d.URL = <<>> THEN {"ID"} ELSE {}

\* C11: Render of a download of any kind returns no node when a field the
\* kind needs is empty: it panics.
C11_MissingFieldIsFatal ==
    (rendered # None /\ \E f \in Needed(download) : download[f] = <<>>)
        => rendered[1].panicked

(* ------------------------- C12 ---------------------------------------- *)

\* A GitHub download with owner and repo has been rendered.
GitHubRendered ==
    /\ rendered # None
    /\ download.kind = "github"
    /\ download.Owner # <<>>
    /\ download.Repo # <<>>

\* C12: Render of a GitHub download with owner and repo returns a link to the
\* explicit URL when one is given and otherwise to
\* https://github.com/<owner>/<repo>/releases, around a shields.io image whose
\* URL holds the URL-escaped owner and repo and ends with the URL-escaped label,
\* which is "GitHub" unless the download gives a label.
C12_GitHubLink ==
    GitHubRendered =>
        LET g == download
            n == rendered[1].node
            label == IF g.Label = <<>> THEN <<"GitHub">> ELSE g.Label
            shield == n.Text.ImageURL
        IN  /\ ~rendered[1].panicked
            /\ n.node = "Link"
            /\ n.URL = IF g.URL # <<>> THEN g.URL
                       ELSE <<"https://github.com/">> \o g.Owner \o <<"/">> \o g.Repo
                            \o <<"/releases">>
            /\ n.Text.node = "Image"
            /\ shield[1] = "https://img.shields.io/github/downloads/"
            /\ Contains(shield, PathEscape(g.Owner) \o <<"/">> \o PathEscape(g.Repo))
            /\ SubSeq(shield, Len(shield) - Len(label), Len(shield))
                   = <<"/total?logo=github&label=">> \o QueryEscape(label)

\* A GitHub download without explicit URL, its owner holding characters that
\* the escape changes, with a label of its own, has been rendered.
C12_Witness ==
    /\ GitHubRendered
    /\ download.URL = <<>>
    /\ PathEscape(download.Owner) # download.Owner
    /\ download.Label # <<>>
    /\ QueryEscape(download.Label) # PathEscape(download.Label)

(* ------------------------- C13 ---------------------------------------- *)

\* The content of a Text inside nested marker pairs, bold outermost: the
\* opening markers ** then * then ~~, the closing markers ~~ then * then **.
Nested(t) ==
    (IF t.Bold THEN <<"*", "*">> ELSE <<>>)
    \o (IF t.Italic THEN <<"*">> ELSE <<>>)
    \o (IF t.Strikethrough THEN <<"~", "~">> ELSE <<>>)
    \o t.string
    \o (IF t.Strikethrough THEN <<"~", "~">> ELSE <<>>)
    \o (IF t.Italic THEN <<"*">> ELSE <<>>)
    \o (IF t.Bold THEN <<"*", "*">> ELSE <<>>)

\* C13: for every combination of the bold, italic and strikethrough flags,
\* Text.Render returns the content wrapped in properly nested marker pairs with
\* bold outermost, the closing markers mirroring the opening ones.
C13_TextMarkersNested ==
    (textNode # None /\ markdown # None) => markdown[1] = Nested(textNode[1])

(* ------------------------- C14 ---------------------------------------- *)

\* The lines of a rendered text, without their line ends.
TextLines(s) ==
    LET pieces == SplitOn(s, "\n")
    IN  SubSeq(pieces, 1, Len(pieces) - 1)

\* The cells of a table line "| cell | cell |"; no cell of the tables here
\* renders as the empty text, so a line without text between its bars has none.
LineCells(line) ==
    LET inner == SubSeq(line, 2, Len(line) - 1)
    IN  IF inner = <<>> THEN <<>> ELSE SplitOn(inner, " | ")

Max(a, b) == IF a < b THEN b ELSE a

\* C14: the second line Table.Render writes is a divider with one column for
\* each header cell, and the column of a header cell is max(3, length of the
\* cell's rendered text) dashes, the length being that of the Go string.
C14_DividerDashes ==
    (table # None /\ markdown # None) =>
        LET header == table[1].Header
            divider == TextLines(markdown[1])[2]
            columns == LineCells(divider)
        IN  /\ divider[1] = "| "
            /\ divider[Len(divider)] = " |"
            /\ Len(columns) = Len(header)
            /\ \A k \in 1..Len(header) :
                  /\ Tokens(columns[k]) = {"-"}
                  /\ Len(columns[k]) = Max(3, ByteLen(Render(header[k])))

\* A rendered table with a header cell shorter than three bytes and one of four
\* bytes that is two characters.
C14_Witness ==
    /\ table # None
    /\ markdown # None
    /\ \E k \in 1..Len(table[1].Header) : ByteLen(Render(table[1].Header[k])) < 3
    /\ \E k \in 1..Len(table[1].Header) :
          /\ ByteLen(Render(table[1].Header[k])) = 4
          /\ Len(Render(table[1].Header[k])) = 2

(* ------------------------- C15 ---------------------------------------- *)

\* C15: every data row Table.Render writes for a Table a TableBuilder built,
\* whatever AddRow calls came before Build, has as many cells as the header row.
C15_RowsAsWideAsHeader ==
    (table # None /\ markdown # None) =>
        LET written == TextLines(markdown[1])
        IN  \A k \in 3..Len(written) :
               Len(LineCells(written[k])) = Len(LineCells(written[1]))

(* ------------------------- C16 ---------------------------------------- *)

\* The official and price.free flags of every client of a config.
Flags(c) ==
    [k \in 1..Len(c.Clients) |->
        [Official |-> c.Clients[k].Official, Free |-> c.Clients[k].Price.Free]]

\* C16: CreateMarkdownDocument leaves the config it is given unchanged: no step
\* of it, whether it ends in a return or in a panic, changes the official flag
\* or the price.free flag of a client.
C16_ConfigUnchanged ==
    [][pc \notin {"load", "open"} => Flags(config') = Flags(config)]_vars

(* ------------------------- C17 ---------------------------------------- *)

\* CreateMarkdownDocument has built its identifier-client map.
MapBuilt == pc \in {"target", "has", "rows", "type", "member", "done"}

\* Every identifier a client of the config declares, lower-cased and trimmed.
Identifiers ==
    UNION {Tokens(NormTargets(config.Clients[k])) : k \in 1..Len(config.Clients)}

\* The clients declaring identifier k, in config order, each of them once.
Declaring(k) ==
    Ascending({c \in 1..Len(config.Clients) : k \in Tokens(NormTargets(config.Clients[c]))})

\* C17: the bucket of every identifier is the config-ordered list, without
\* repetition, of the clients having a target equal to it after lower-casing
\* and trimming, and there is no bucket for anything else.
C17_BucketsWithoutRepetition ==
    MapBuilt =>
        /\ DOMAIN targetClientsMap = Identifiers
        /\ \A k \in Identifiers : targetClientsMap[k] = Declaring(k)

(* ------------------------- C18 ---------------------------------------- *)

\* The input lines, by the index the code gives them.
LineIndices == 0..(Len(lines) - 1)

IsMarker(j) == Contains(LineAt(j), SortMarker)

IsBullet(j) == HasPrefix(LineAt(j), <<"-", " ">>)

IsBlankOrHeading(j) == TrimSpace(LineAt(j)) = <<>> \/ LineAt(j)[1] = "#"

\* The index of the first blank or heading line after line m, the number of
\* lines when there is none.
ListEnd(m) ==
    LET ends == {e \in LineIndices : e > m /\ IsBlankOrHeading(e)}
    IN  IF ends = {} THEN Len(lines) ELSE CHOOSE e \in ends : \A f \in ends : e <= f

\* The lines that follow marker line m up to the first blank or heading line.
Region(m) == {j \in LineIndices : m < j /\ j < ListEnd(m)}

\* The top-level bullets after marker m, and the bullet a line after m is under.
Bullets(m) == {j \in Region(m) : IsBullet(j)}

HasParent(m, j) == j \in Region(m) /\ ~IsBullet(j) /\ \E b \in Bullets(m) : b < j

Parent(m, j) == CHOOSE b \in Bullets(m) : b < j /\ \A c \in Bullets(m) : c < j => c <= b

Key(j) == canonicalize(LineAt(j)).canon

\* Where input line j is in the output.
Pos(j) == CHOOSE k \in 1..Len(output) : output[k] = j

\* The output lines are the input lines, each of them once.
IsPermutation ==
    /\ Len(output) = Len(lines)
    /\ \A j \in LineIndices : \E k \in 1..Len(output) : output[k] = j

\* The bullet blocks after marker line m come out in non-decreasing order of
\* their keys, equal keys in input order, children under their own bullet.
BlocksSorted(m) ==
    /\ \A a, b \in Bullets(m) :
          /\ Pos(a) < Pos(b) => ~StringLess(Key(b), Key(a))
          /\ (a < b /\ Key(a) = Key(b)) => Pos(a) < Pos(b)
    /\ \A j \in Region(m) : HasParent(m, j) => Pos(j) - Pos(Parent(m, j)) = j - Parent(m, j)

\* Line j is unchanged and in place.
InPlace(j) == output[j + 1] = j

\* Line j is in a bullet block after one of the marker lines ms.
InBlock(ms, j) == \E m \in ms : j \in Bullets(m) \/ HasParent(m, j)

\* C18 as stated: the blocks after every marker line come out sorted.
C18_BlocksAfterEveryMarker ==
    sortPc = "done" =>
        LET markers == {m \in LineIndices : IsMarker(m)}
        IN  /\ IsPermutation
            /\ \A m \in markers : BlocksSorted(m)
            /\ \A j \in LineIndices : ~InBlock(markers, j) => InPlace(j)

\* The marker lines whose next line is a top-level bullet.
ListMarkers == {m \in LineIndices : IsMarker(m) /\ m + 1 < Len(lines) /\ IsBullet(m + 1)}

\* C18, amended: for every marker line that a top-level "- " bullet follows
\* directly, the bullet blocks after it, up to the first blank or heading line,
\* come out in non-decreasing order of their canonical keys, equal keys in
\* input order and children under their own bullet; every other line, also the
\* lines after a marker that no bullet follows directly, is unchanged and in
\* place; the output is a permutation of the input lines.
C18_BlocksAfterMarkerAndBullet ==
    sortPc = "done" =>
        /\ IsPermutation
        /\ \A m \in ListMarkers : BlocksSorted(m)
        /\ \A j \in LineIndices : ~InBlock(ListMarkers, j) => InPlace(j)

\* The sorter has moved a bullet with its child line in front of a bullet that
\* came first in the input.
C18_Witness ==
    /\ sortPc = "done"
    /\ \E m \in ListMarkers :
          \E a, b \in Bullets(m) :
             /\ a < b
             /\ Pos(b) < Pos(a)
             /\ \E c \in Region(m) : HasParent(m, c) /\ Parent(m, c) = b


=============================================================================
